---- MODULE Spec2Model ----
(***************************************************************************)
(* Model of the syllabus-analysis pipeline of src/services/geminiService.ts *)
(* (parseJSON, withTimeout, evaluateSyllabusContent, performBenchmarking,   *)
(* findLocalTutors, translateAnalysisResult) and of the App component that  *)
(* sequences them (handleProcess, handleLanguageChange, handleReset).       *)
(*                                                                         *)
(* JavaScript values are tagged records; a text is a sequence of lexical    *)
(* tokens (punctuation, literals, prose words, code-fence markers), so that *)
(* the regular expressions and JSON.parse of the source act on the text.    *)
(***************************************************************************)
EXTENDS Integers, Sequences, FiniteSets, TLC

VARIABLES
    req,            \* per call: the upstream generateContent promise
    timer,          \* per call: the setTimeout of withTimeout
    race,           \* per call: the Promise.race of withTimeout
    wt,             \* per call: the promise withTimeout returns (after finally)
    ret,            \* per call: the promise the stage (async function) returns
    arg,            \* per call: the stage's argument that shapes its result
    settles,        \* per call: how many times wt has been settled
    jobs,           \* the microtask queue (promise reaction jobs), FIFO
    file, language, status, errorMessage, results, isTranslating,  \* App state
    hp,             \* handleProcess: position and locals of the running call
    hlc             \* handleLanguageChange: position of the running call

vars == <<req, timer, race, wt, ret, arg, settles, jobs, file, language, status,
          errorMessage, results, isTranslating, hp, hlc>>

(***************************************************************************)
(* JavaScript / JSON values                                                *)
(***************************************************************************)
JNull == [t |-> "null"]
JUndefined == [t |-> "undefined"]
JNum(n) == [t |-> "num", n |-> n]
JStr(s) == [t |-> "str", s |-> s]
JBool(b) == [t |-> "bool", b |-> b]
JArr(a) == [t |-> "arr", a |-> a]
JObj(o) == [t |-> "obj", o |-> o]
\* the i-th character of string s, as a one-character string value
JChar(s, i) == [t |-> "char", of |-> s, i |-> i]
\* an array object that also carries named properties (arr.prop = v)
JArrProps(a, p) == [t |-> "arr", a |-> a, props |-> p]

EmptyObject == [k \in {} |-> JNull]

\* Array.isArray(v)
IsArray(v) == v.t = "arr"

\* typeof v === 'object'  (null included, as in JavaScript)
TypeofObject(v) == v.t \in {"obj", "arr", "null"}

\* ToBoolean(v)
Truthy(v) ==
    CASE v.t = "null" -> FALSE
      [] v.t = "undefined" -> FALSE
      [] v.t = "num" -> v.n # 0
      [] v.t = "str" -> v.s # ""
      [] v.t = "bool" -> v.b
      [] OTHER -> TRUE

\* the own enumerable string-keyed properties that {...v} copies
IndexKey(i) == ToString(i - 1)

SpreadProps(v) ==
    CASE v.t = "obj" -> v.o
      [] v.t = "arr" ->
            [k \in {IndexKey(i) : i \in 1..Len(v.a)} |->
                v.a[CHOOSE i \in 1..Len(v.a) : IndexKey(i) = k]]
      [] v.t = "str" ->
            [k \in {IndexKey(i) : i \in 1..Len(v.s)} |->
                JChar(v.s, CHOOSE i \in 1..Len(v.s) : IndexKey(i) = k)]
      [] OTHER -> EmptyObject

\* { ...a, ...b } on property maps: b's value wins on a shared key
Merge(a, b) ==
    [k \in (DOMAIN a) \cup (DOMAIN b) |-> IF k \in DOMAIN b THEN b[k] ELSE a[k]]

(***************************************************************************)
(* Texts: sequences of lexical tokens                                       *)
(***************************************************************************)
LB == [k |-> "{"]
RB == [k |-> "}"]
LK == [k |-> "["]
RK == [k |-> "]"]
CM == [k |-> ","]
CL == [k |-> ":"]
TNull == [k |-> "null"]
TTrue == [k |-> "true"]
TNum(n) == [k |-> "num", n |-> n]
TStr(s) == [k |-> "str", s |-> s]
Word == [k |-> "word"]              \* prose that is no JSON token
FenceJson == [k |-> "fencejson"]    \* an opening code fence tagged json
Fence == [k |-> "fence"]            \* a bare code fence (three backquotes)

\* JSON.parse: recursive descent over the tokens; fails (throws) on anything
\* that is not exactly one JSON value
ParseFail == [ok |-> FALSE]
ParseOk(v, next) == [ok |-> TRUE, val |-> v, next |-> next]

RECURSIVE ParseValue(_, _)
RECURSIVE ParseElements(_, _, _)
RECURSIVE ParseMembers(_, _, _)

ParseValue(toks, i) ==
    IF i > Len(toks) THEN ParseFail
    ELSE LET tk == toks[i] IN
         CASE tk.k = "null" -> ParseOk(JNull, i + 1)
           [] tk.k = "true" -> ParseOk(JBool(TRUE), i + 1)
           [] tk.k = "num" -> ParseOk(JNum(tk.n), i + 1)
           [] tk.k = "str" -> ParseOk(JStr(tk.s), i + 1)
           [] tk.k = "[" ->
                IF i + 1 <= Len(toks) /\ toks[i + 1].k = "]"
                THEN ParseOk(JArr(<<>>), i + 2)
                ELSE ParseElements(toks, i + 1, <<>>)
           [] tk.k = "{" ->
                IF i + 1 <= Len(toks) /\ toks[i + 1].k = "}"
                THEN ParseOk(JObj(EmptyObject), i + 2)
                ELSE ParseMembers(toks, i + 1, EmptyObject)
           [] OTHER -> ParseFail

ParseElements(toks, i, acc) ==
    LET r == ParseValue(toks, i) IN
    IF ~r.ok \/ r.next > Len(toks) THEN ParseFail
    ELSE CASE toks[r.next].k = "," ->
                ParseElements(toks, r.next + 1, Append(acc, r.val))
           [] toks[r.next].k = "]" ->
                ParseOk(JArr(Append(acc, r.val)), r.next + 1)
           [] OTHER -> ParseFail

ParseMembers(toks, i, acc) ==
    IF i + 1 > Len(toks) \/ toks[i].k # "str" \/ toks[i + 1].k # ":"
    THEN ParseFail
    ELSE LET r == ParseValue(toks, i + 2) IN
         IF ~r.ok \/ r.next > Len(toks) THEN ParseFail
         ELSE LET acc2 == Merge(acc, [k \in {toks[i].s} |-> r.val]) IN
              CASE toks[r.next].k = "," -> ParseMembers(toks, r.next + 1, acc2)
                [] toks[r.next].k = "}" -> ParseOk(JObj(acc2), r.next + 1)
                [] OTHER -> ParseFail

JSONParse(toks) ==
    LET r == ParseValue(toks, 1) IN
    IF r.ok /\ r.next = Len(toks) + 1 THEN [ok |-> TRUE, val |-> r.val]
    ELSE ParseFail

\* JSON.stringify of a parsed value, as tokens (used to build input texts)
RECURSIVE Stringify(_)
RECURSIVE StringifyElements(_, _)
RECURSIVE StringifyMembers(_, _)

Stringify(v) ==
    CASE v.t = "null" -> <<TNull>>
      [] v.t = "bool" -> <<TTrue>>
      [] v.t = "num" -> <<TNum(v.n)>>
      [] v.t = "str" -> <<TStr(v.s)>>
      [] v.t = "arr" -> <<LK>> \o StringifyElements(v.a, 1) \o <<RK>>
      [] v.t = "obj" -> <<LB>> \o StringifyMembers(v.o, DOMAIN v.o) \o <<RB>>

StringifyElements(a, i) ==
    IF i > Len(a) THEN <<>>
    ELSE Stringify(a[i]) \o (IF i < Len(a) THEN <<CM>> ELSE <<>>)
         \o StringifyElements(a, i + 1)

StringifyMembers(o, keys) ==
    IF keys = {} THEN <<>>
    ELSE LET k == CHOOSE x \in keys : TRUE IN
         <<TStr(k), CL>> \o Stringify(o[k])
         \o (IF keys \ {k} # {} THEN <<CM>> ELSE <<>>)
         \o StringifyMembers(o, keys \ {k})

\* text.match(/<open>[\s\S]*<close>/): from the first opening token to the
\* last closing token after it (greedy), or no match
FirstIndex(text, kind) ==
    IF \E i \in 1..Len(text) : text[i].k = kind
    THEN CHOOSE i \in 1..Len(text) :
            text[i].k = kind /\ \A j \in 1..(i - 1) : text[j].k # kind
    ELSE 0

LastIndex(text, kind) ==
    IF \E i \in 1..Len(text) : text[i].k = kind
    THEN CHOOSE i \in 1..Len(text) :
            text[i].k = kind /\ \A j \in (i + 1)..Len(text) : text[j].k # kind
    ELSE 0

GreedyMatch(text, open, close) ==
    LET i == FirstIndex(text, open)
        j == LastIndex(text, close)
    IN  IF i > 0 /\ j > i THEN [found |-> TRUE, text |-> SubSeq(text, i, j)]
        ELSE [found |-> FALSE]

\* the two replace() calls of the fallback cleanup: both fence forms removed
StripFences(text) == SelectSeq(text, LAMBDA tk : tk.k \notin {"fencejson", "fence"})

\* the value a code path yields, or the catch block's {} when JSON.parse throws
ParseOrEmpty(toks) ==
    LET r == JSONParse(toks) IN IF r.ok THEN r.val ELSE JObj(EmptyObject)

parseJSON(text) ==
    LET objectMatch == GreedyMatch(text, "{", "}")
        arrayMatch == GreedyMatch(text, "[", "]")
    IN  IF objectMatch.found THEN ParseOrEmpty(objectMatch.text)
        ELSE IF arrayMatch.found THEN ParseOrEmpty(arrayMatch.text)
        ELSE ParseOrEmpty(StripFences(text))

(***************************************************************************)
(* evaluateSyllabusContent: default overlay and sanitization                *)
(***************************************************************************)
GapKeys == {"missingComponents", "weaknesses", "strengths"}

defaultGapAnalysis ==
    JObj([missingComponents |->
              JArr(<<JStr("Analysis yielded no missing components data.")>>),
          weaknesses |-> JArr(<<JStr("Analysis yielded no weakness data.")>>),
          strengths |-> JArr(<<JStr("Analysis yielded no strength data.")>>)])

defaultAnalysis ==
    [courseTitle |-> JStr("Untitled Course"),
     syllabusTopics |-> JArr(<<JStr("General Topics")>>),
     overallScore |-> JNum(0),
     sectionScores |-> JArr(<<>>),
     gapAnalysis |-> defaultGapAnalysis,
     recommendations |-> JArr(<<>>),
     revisedILOs |-> JArr(<<JStr("No revisions generated.")>>),
     suggestedActivities |-> JArr(<<>>)]

\* if (!Array.isArray(finalData.f)) finalData.f = <replacement>
sanitizeSectionScores(v) == IF IsArray(v) THEN v ELSE JArr(<<>>)
sanitizeSyllabusTopics(v) ==
    IF IsArray(v) THEN v ELSE JArr(<<JStr("Topics not extracted")>>)
sanitizeRecommendations(v) == IF IsArray(v) THEN v ELSE JArr(<<>>)
sanitizeRevisedILOs(v) == IF IsArray(v) THEN v ELSE JArr(<<>>)
sanitizeSuggestedActivities(v) == IF IsArray(v) THEN v ELSE JArr(<<>>)

\* v.k for a property read (undefined when absent)
GetProp(v, k) ==
    CASE v.t = "obj" -> IF k \in DOMAIN v.o THEN v.o[k] ELSE JUndefined
      [] v.t = "arr" /\ "props" \in DOMAIN v ->
            IF k \in DOMAIN v.props THEN v.props[k] ELSE JUndefined
      [] OTHER -> JUndefined

\* if (!Array.isArray(finalData.gapAnalysis.k)) finalData.gapAnalysis.k = []
sanitizeGapList(v) == IF IsArray(v) THEN v ELSE JArr(<<>>)

\* mutant: gapAnalysis is returned as the model gave it
sanitizeGapAnalysis_Unchecked(g) == g

sanitizeGapAnalysis(g) ==
    IF ~Truthy(g) \/ ~TypeofObject(g) THEN defaultGapAnalysis
    ELSE LET fixed == [k \in GapKeys |-> sanitizeGapList(GetProp(g, k))] IN
         IF g.t = "obj" THEN JObj(Merge(g.o, fixed))
         ELSE JArrProps(g.a, fixed)

\* the object the stage returns for a response text
evaluateResult(responseText) ==
    LET text == IF responseText = <<>> THEN <<LB, RB>> ELSE responseText
        parsedData == parseJSON(text)
        finalData == Merge(defaultAnalysis, SpreadProps(parsedData))
        sanitized ==
            [sectionScores |-> sanitizeSectionScores(finalData.sectionScores),
             syllabusTopics |-> sanitizeSyllabusTopics(finalData.syllabusTopics),
             recommendations |-> sanitizeRecommendations(finalData.recommendations),
             revisedILOs |-> sanitizeRevisedILOs(finalData.revisedILOs),
             suggestedActivities |->
                 sanitizeSuggestedActivities(finalData.suggestedActivities),
             gapAnalysis |-> sanitizeGapAnalysis(finalData.gapAnalysis)]
    IN  Merge(finalData, sanitized)

(***************************************************************************)
(* translateAnalysisResult: the merge of the parsed payload over the input  *)
(***************************************************************************)
\* mutant: the parsed payload is returned without the merge over data
translateResult_PayloadOnly(data, responseText) ==
    SpreadProps(parseJSON(IF responseText = <<>> THEN <<LB, RB>> ELSE responseText))

\* { ...data, ...parsed } for a response text; data is a property map
translateResult(data, responseText) ==
    LET text == IF responseText = <<>> THEN <<LB, RB>> ELSE responseText
        parsed == parseJSON(text)
    IN  Merge(data, SpreadProps(parsed))

(***************************************************************************)
(* The delimited text of the search stages.  A text is a sequence of lines; *)
(* a string value is a sequence of atoms (words, "*" and " " among them).   *)
(***************************************************************************)
Marker == [k |-> "marker"]          \* BENCHMARK_ITEM / TUTOR_ITEM
EndItem == [k |-> "end"]            \* END_ITEM
Prose == [k |-> "prose"]            \* a line that names no key
\* an occurrence of key, its [:*]* punctuation, and the rest of that line
KeyLine(key, val) == [k |-> "key", key |-> key, val |-> val]

\* the characters of a line, as atoms
RawLine(tok) ==
    CASE tok.k = "key" -> <<tok.key, ":">> \o tok.val
      [] tok.k = "end" -> <<"END_ITEM">>
      [] tok.k = "marker" -> <<"ITEM">>
      [] OTHER -> <<"prose">>

\* text.split(marker)
RECURSIVE SplitFrom(_, _, _)
SplitFrom(text, i, cur) ==
    IF i > Len(text) THEN <<cur>>
    ELSE IF text[i].k = "marker" THEN <<cur>> \o SplitFrom(text, i + 1, <<>>)
    ELSE SplitFrom(text, i + 1, Append(cur, text[i]))

split(text) == SplitFrom(text, 1, <<>>)

IsSpace(a) == a \in {" ", "NL"}

\* String.prototype.trim
RECURSIVE TrimLeft(_)
TrimLeft(v) == IF v # <<>> /\ IsSpace(Head(v)) THEN TrimLeft(Tail(v)) ELSE v

RECURSIVE TrimRight(_)
TrimRight(v) ==
    IF v # <<>> /\ IsSpace(v[Len(v)]) THEN TrimRight(SubSeq(v, 1, Len(v) - 1))
    ELSE v

trim(v) == TrimRight(TrimLeft(v))

\* .replace(/\*/g, '')
stripStars(v) == SelectSeq(v, LAMBDA a : a # "*")

NoMatch == [found |-> FALSE]
Matched(v) == [found |-> TRUE, cap |-> v]

\* item.match(/Key[:*]*\s*(.+?)(?:\n|$)/i): the first occurrence of the key
\* that has a character after it; the capture is the rest of its line, or
\* the whole next line when \s* has to run over the line break
matchLine(item, key) ==
    LET ok(i) == /\ item[i].k = "key" /\ item[i].key = key
                 /\ (item[i].val # <<>> \/ i < Len(item))
    IN  IF \E i \in 1..Len(item) : ok(i)
        THEN LET i == CHOOSE x \in 1..Len(item) :
                        ok(x) /\ \A y \in 1..(x - 1) : ~ok(y)
             IN  Matched(IF item[i].val # <<>> THEN item[i].val
                         ELSE RawLine(item[i + 1]))
        ELSE NoMatch

\* the lines from..to joined by line breaks
RECURSIVE JoinLines(_, _, _)
JoinLines(item, from, to) ==
    IF from > to THEN <<>>
    ELSE RawLine(item[from])
         \o (IF from < to THEN <<"NL">> \o JoinLines(item, from + 1, to) ELSE <<>>)

\* item.match(/Key[:*]*\s*([\s\S]+?)(?:END_ITEM|$)/i): from the first
\* occurrence of the key with a character after it, lazily up to the first
\* END_ITEM that follows at least one captured character, or to the end
matchLast(item, key) ==
    LET ok(i) == /\ item[i].k = "key" /\ item[i].key = key
                 /\ (item[i].val # <<>> \/ i < Len(item))
    IN  IF \E i \in 1..Len(item) : ok(i)
        THEN LET i == CHOOSE x \in 1..Len(item) :
                        ok(x) /\ \A y \in 1..(x - 1) : ~ok(y)
                 first == IF item[i].val # <<>> THEN i + 1 ELSE i + 2
                 ends == {j \in first..Len(item) : item[j].k = "end"}
                 stop == IF ends = {} THEN Len(item)
                         ELSE (CHOOSE j \in ends : \A j2 \in ends : j <= j2) - 1
             IN  Matched(IF item[i].val # <<>>
                         THEN item[i].val
                              \o (IF stop > i THEN <<"NL">> ELSE <<>>)
                              \o JoinLines(item, i + 1, stop)
                         ELSE JoinLines(item, i + 1, stop))
        ELSE NoMatch

\* the records performBenchmarking pushes, one fragment after the other
RECURSIVE benchmarkRecords(_, _)
benchmarkRecords(items, n) ==
    IF n > Len(items) THEN <<>>
    ELSE LET uniMatch == matchLine(items[n], "University")
             compMatch == matchLast(items[n], "Comparison")
         IN  (IF uniMatch.found /\ compMatch.found
              THEN <<[university |-> stripStars(trim(uniMatch.cap)),
                      comparison |-> trim(compMatch.cap)]>>
              ELSE <<>>)
             \o benchmarkRecords(items, n + 1)

\* the records findLocalTutors pushes
RECURSIVE tutorRecords(_, _)
tutorRecords(items, n) ==
    IF n > Len(items) THEN <<>>
    ELSE LET nameMatch == matchLine(items[n], "Name")
             affMatch == matchLine(items[n], "Affiliation")
             emailMatch == matchLine(items[n], "Email")
             specMatch == matchLast(items[n], "Specialization")
         IN  (IF nameMatch.found
              THEN <<[name |-> stripStars(trim(nameMatch.cap)),
                      affiliation |-> IF affMatch.found
                                      THEN stripStars(trim(affMatch.cap))
                                      ELSE <<"Unknown">>,
                      email |-> IF emailMatch.found
                                THEN stripStars(trim(emailMatch.cap))
                                ELSE <<"Not listed">>,
                      specialization |-> IF specMatch.found
                                         THEN trim(specMatch.cap)
                                         ELSE <<"Related Field">>]>>
              ELSE <<>>)
             \o tutorRecords(items, n + 1)

\* grounding chunks: absent (no metadata) or a list of chunks, each null,
\* without a web locator, or with one
NoChunks == [has |-> FALSE]
Chunks(l) == [has |-> TRUE, list |-> l]
NullChunk == [c |-> "null"]
PlainChunk == [c |-> "plain"]
WebChunk(u) == [c |-> "web", uri |-> u]

\* chunks.find(c => c.web?.uri): throws on a null element met before a match
findWebChunk(chunks) ==
    LET hit(i) == chunks[i].c = "web"
        bad(i) == chunks[i].c = "null"
        stopAt == {i \in 1..Len(chunks) : hit(i) \/ bad(i)}
    IN  IF stopAt = {} THEN [threw |-> FALSE, found |-> FALSE]
        ELSE LET i == CHOOSE x \in stopAt : \A y \in stopAt : x <= y IN
             IF bad(i) THEN [threw |-> TRUE]
             ELSE [threw |-> FALSE, found |-> TRUE, uri |-> chunks[i].uri]

NoDataRecord ==
    [university |-> <<"No Data">>,
     comparison |-> <<"Could not retrieve benchmarks.">>]

SearchUnavailableRecord ==
    [university |-> <<"Search Unavailable">>,
     comparison |-> <<"Benchmarking skipped due to connection ", "timeout",
                      " or error.">>]

\* mutant: the locator is attached to every record
attachUrl_EveryRecord(rs, uri) ==
    [i \in 1..Len(rs) |->
        [university |-> rs[i].university, comparison |-> rs[i].comparison,
         url |-> uri]]

\* results[0].url = webChunk.web.uri
attachUrl(rs, uri) ==
    <<[university |-> rs[1].university, comparison |-> rs[1].comparison,
       url |-> uri]>> \o Tail(rs)

\* the body of performBenchmarking's try block for a response:
\* [threw |-> TRUE] or [threw |-> FALSE, v |-> the list returned]
benchmarkTry(response) ==
    LET rs == benchmarkRecords(split(response.text), 1)
        chunks == response.chunks
    IN  IF chunks.has /\ Len(rs) > 0
        THEN LET w == findWebChunk(chunks.list) IN
             IF w.threw THEN [threw |-> TRUE]
             ELSE [threw |-> FALSE,
                   v |-> IF w.found THEN attachUrl(rs, w.uri) ELSE rs]
        ELSE [threw |-> FALSE, v |-> IF Len(rs) > 0 THEN rs ELSE <<NoDataRecord>>]

\* the body of findLocalTutors' try block for a response
tutorTry(response) ==
    [threw |-> FALSE, v |-> tutorRecords(split(response.text), 1)]

(***************************************************************************)
(* Promises, withTimeout and the four stages                                *)
(***************************************************************************)
Calls == {"eval", "bench", "tutor", "trans"}

NoPromise == [st |-> "none"]
Pending == [st |-> "pending"]
Fulfilled(v) == [st |-> "fulfilled", v |-> v]
Rejected(e) == [st |-> "rejected", e |-> e]
Settled(p) == p.st \in {"fulfilled", "rejected"}

Err(msg) == [message |-> msg]

\* the budget and message each stage passes to withTimeout
TimeoutMs(c) == IF c \in {"bench", "tutor"} THEN 90000 ELSE 60000

TimeoutMsg(c) ==
    CASE c = "eval" -> "Analysis timed out (60s)."
      [] c = "bench" -> "Benchmarking search timed out."
      [] c = "tutor" -> "Tutor search timed out."
      [] c = "trans" -> "Translation timed out."

NoTimer == [st |-> "none"]
\* setTimeout(() => reject(new Error(errorMsg)), ms)
setTimeout(ms, msg) == [st |-> "armed", ms |-> ms, msg |-> msg]
\* mutant: the finally callback does not cancel the timer
clearTimeout_Noop(tm) == tm

\* clearTimeout(timeoutId): cancels a pending timer, no effect on a fired one
clearTimeout(tm) == IF tm.st = "armed" THEN [tm EXCEPT !.st = "cleared"] ELSE tm

\* mutant: an input settling later settles the race again
raceReaction_LastWins(cur, outcome) == [p |-> outcome, first |-> TRUE]

\* the reaction of Promise.race to one of its inputs settling: the first
\* settles the race, a later one is ignored
raceReaction(cur, outcome) ==
    IF cur.st = "pending" THEN [p |-> outcome, first |-> TRUE]
    ELSE [p |-> cur, first |-> FALSE]

\* what each async stage function settles its promise with, given the
\* outcome w of  await withTimeout(request, ...)
evaluateSyllabusContent(w) ==
    IF w.st = "rejected" THEN Rejected(w.e)
    ELSE Fulfilled(evaluateResult(w.v.text))

\* mutant: a failed translation falls back to the untranslated input
translateAnalysisResult_Fallback(w, data) ==
    IF w.st = "rejected" THEN Fulfilled(data)
    ELSE Fulfilled(translateResult(data, w.v.text))

translateAnalysisResult(w, data) ==
    IF w.st = "rejected" THEN Rejected(w.e)
    ELSE Fulfilled(translateResult(data, w.v.text))

\* mutant: no try/catch around the stage body
performBenchmarking_NoCatch(w) ==
    IF w.st = "rejected" THEN Rejected(w.e)
    ELSE LET r == benchmarkTry(w.v) IN
         IF r.threw THEN Rejected(Err("TypeError")) ELSE Fulfilled(r.v)

performBenchmarking(w) ==
    IF w.st = "rejected" THEN Fulfilled(<<SearchUnavailableRecord>>)
    ELSE LET r == benchmarkTry(w.v) IN
         IF r.threw THEN Fulfilled(<<SearchUnavailableRecord>>)
         ELSE Fulfilled(r.v)

findLocalTutors(w) ==
    IF w.st = "rejected" THEN Fulfilled(<<>>)
    ELSE LET r == tutorTry(w.v) IN
         IF r.threw THEN Fulfilled(<<>>) ELSE Fulfilled(r.v)

stageOutcome(c, w, a) ==
    CASE c = "eval" -> evaluateSyllabusContent(w)
      [] c = "bench" -> performBenchmarking(w)
      [] c = "tutor" -> findLocalTutors(w)
      [] c = "trans" -> translateAnalysisResult(w, a)

\* microtask jobs
RaceJob(c, src) == [j |-> "race", c |-> c, src |-> src]
FinallyJob(c) == [j |-> "finally", c |-> c, src |-> "-"]
StageJob(c) == [j |-> "stage", c |-> c, src |-> "-"]
CallerJob(c) == [j |-> "caller", c |-> c, src |-> "-"]

\* a stage is called: it issues its request and enters withTimeout, which
\* arms the timer and races the two promises; args gives each call's input
StartCalls(cs, args) ==
    /\ req' = [c \in Calls |-> IF c \in cs THEN Pending ELSE req[c]]
    /\ timer' = [c \in Calls |->
                    IF c \in cs THEN setTimeout(TimeoutMs(c), TimeoutMsg(c))
                    ELSE timer[c]]
    /\ race' = [c \in Calls |-> IF c \in cs THEN Pending ELSE race[c]]
    /\ wt' = [c \in Calls |-> IF c \in cs THEN Pending ELSE wt[c]]
    /\ ret' = [c \in Calls |-> IF c \in cs THEN Pending ELSE ret[c]]
    /\ arg' = [c \in Calls |-> IF c \in cs THEN args[c] ELSE arg[c]]
    /\ settles' = [c \in Calls |-> IF c \in cs THEN 0 ELSE settles[c]]

NoArgs == [c \in Calls |-> EmptyObject]

\* the caller has taken the results of the calls cs and returns: their
\* promises and timers are unreachable from then on; a request that has not
\* answered yet stays in flight
ReleaseCalls(cs) ==
    /\ req' = [c \in Calls |->
                  IF c \in cs /\ req[c].st # "pending" THEN NoPromise ELSE req[c]]
    /\ timer' = [c \in Calls |-> IF c \in cs THEN NoTimer ELSE timer[c]]
    /\ race' = [c \in Calls |-> IF c \in cs THEN NoPromise ELSE race[c]]
    /\ wt' = [c \in Calls |-> IF c \in cs THEN NoPromise ELSE wt[c]]
    /\ ret' = [c \in Calls |-> IF c \in cs THEN NoPromise ELSE ret[c]]
    /\ arg' = [c \in Calls |-> IF c \in cs THEN EmptyObject ELSE arg[c]]
    /\ settles' = [c \in Calls |-> IF c \in cs THEN 0 ELSE settles[c]]

appVars == <<file, language, status, errorMessage, results, isTranslating, hp, hlc>>
callVars == <<req, timer, race, wt, ret, arg, settles>>

\* the upstream call answers (a task of the event loop: runs when no
\* microtask is queued)
UpstreamResolve(c, answers) ==
    /\ jobs = <<>>
    /\ req[c].st = "pending"
    /\ \E response \in answers : req' = [req EXCEPT ![c] = Fulfilled(response)]
    /\ jobs' = <<RaceJob(c, "op")>>
    /\ UNCHANGED <<timer, race, wt, ret, arg, settles, appVars>>

UpstreamReject(c, errors) ==
    /\ jobs = <<>>
    /\ req[c].st = "pending"
    /\ \E e \in errors : req' = [req EXCEPT ![c] = Rejected(e)]
    /\ jobs' = <<RaceJob(c, "op")>>
    /\ UNCHANGED <<timer, race, wt, ret, arg, settles, appVars>>

\* the deadline passes: the timer callback rejects timeoutPromise
TimerFire(c) ==
    /\ jobs = <<>>
    /\ timer[c].st = "armed"
    /\ timer' = [timer EXCEPT ![c].st = "fired"]
    /\ jobs' = <<RaceJob(c, "timer")>>
    /\ UNCHANGED <<req, race, wt, ret, arg, settles, appVars>>

\* Promise.race([promise, timeoutPromise]) reacts to an input; the answer to
\* a request whose promises were dropped with their stage finds nothing to do
RunRace ==
    /\ jobs # <<>> /\ Head(jobs).j = "race"
    /\ LET c == Head(jobs).c
           outcome == IF Head(jobs).src = "op" THEN req[c]
                      ELSE Rejected(Err(timer[c].msg))
           r == raceReaction(race[c], outcome)
       IN  /\ race' = [race EXCEPT ![c] = r.p]
           /\ req' = [req EXCEPT ![c] = IF race[c].st = "none" THEN NoPromise ELSE @]
           /\ jobs' = Tail(jobs) \o (IF r.first THEN <<FinallyJob(c)>> ELSE <<>>)
    /\ UNCHANGED <<timer, wt, ret, arg, settles, appVars>>

\* .finally(() => clearTimeout(timeoutId)), then the returned promise settles
RunFinally ==
    /\ jobs # <<>> /\ Head(jobs).j = "finally"
    /\ LET c == Head(jobs).c IN
        /\ timer' = [timer EXCEPT ![c] = clearTimeout(timer[c])]
        /\ wt' = [wt EXCEPT ![c] = race[c]]
        /\ settles' = [settles EXCEPT ![c] = settles[c] + 1]
        /\ jobs' = Tail(jobs) \o <<StageJob(c)>>
    /\ UNCHANGED <<req, race, ret, arg, appVars>>

\* the stage resumes after its await and settles the promise it returned;
\* a caller awaiting that promise is scheduled
Awaited(c) ==
    \/ c = "eval" /\ hp.pc = "awaitEval"
    \/ c \in {"bench", "tutor"} /\ hp.pc = "awaitAll"
    \/ c = "trans" /\ hlc.pc = "awaitTrans"

RunStage ==
    /\ jobs # <<>> /\ Head(jobs).j = "stage"
    /\ LET c == Head(jobs).c IN
        /\ ret' = [ret EXCEPT ![c] = stageOutcome(c, wt[c], arg[c])]
        /\ jobs' = Tail(jobs) \o (IF Awaited(c) THEN <<CallerJob(c)>> ELSE <<>>)
    /\ UNCHANGED <<req, timer, race, wt, arg, settles, appVars>>

(***************************************************************************)
(* Inputs: what the upstream model may answer                               *)
(***************************************************************************)
MaxRawLen == 3
MaxSearchLen == 3

\* all sequences over S of length 1..n
RECURSIVE SeqsUpTo(_, _)
SeqsUpTo(S, n) ==
    IF n = 0 THEN {}
    ELSE LET shorter == SeqsUpTo(S, n - 1) IN
         {<<x>> : x \in S} \cup shorter \cup {Append(q, x) : q \in shorter, x \in S}

RawAlphabet == {LB, RB, LK, RK, Word, Fence, TNum(1)}
RawTexts == {<<>>} \cup SeqsUpTo(RawAlphabet, MaxRawLen)

ListKeys ==
    {"sectionScores", "syllabusTopics", "recommendations", "revisedILOs",
     "suggestedActivities"}

ListFieldValues ==
    {JArr(<<JStr("item")>>), JArr(<<>>), JStr("not a list"), JNull, JNum(7)}
TitleValues == {JStr("Intro to Algorithms"), JNull, JNum(5)}
ScoreValues == {JNum(85), JStr("high"), JNull}
GapListValues == {JArr(<<JStr("gap")>>), JArr(<<>>), JStr("bad")}
GapObjects ==
    UNION {{JObj(f) : f \in [S -> GapListValues]} : S \in SUBSET GapKeys}
GapValues == {JNull, JStr("none"), JNum(0), JArr(<<>>)} \cup GapObjects

FieldValues(k) ==
    CASE k \in ListKeys -> ListFieldValues
      [] k = "courseTitle" -> TitleValues
      [] k = "overallScore" -> ScoreValues
      [] k = "gapAnalysis" -> GapValues
      [] OTHER -> {JStr("x")}

ModelKeys == ListKeys \cup {"courseTitle", "overallScore", "gapAnalysis", "notes"}

SingleKeyObjects ==
    UNION {{[x \in {k} |-> v] : v \in FieldValues(k)} : k \in ModelKeys}

\* an answer that follows the response schema
ValidObject ==
    [courseTitle |-> JStr("Intro to Algorithms"),
     syllabusTopics |-> JArr(<<JStr("sorting"), JStr("recursion")>>),
     overallScore |-> JNum(85),
     sectionScores |-> JArr(<<JObj([section |-> JStr("ILOs"), score |-> JNum(70),
                                    feedback |-> JStr("vague")])>>),
     gapAnalysis |-> JObj([missingComponents |-> JArr(<<JStr("no policy")>>),
                           weaknesses |-> JArr(<<JStr("old references")>>),
                           strengths |-> JArr(<<JStr("clear plan")>>)]),
     recommendations |-> JArr(<<JStr("add rubric")>>),
     revisedILOs |-> JArr(<<JStr("Analyze sorting algorithms")>>),
     suggestedActivities |-> JArr(<<>>)]

ParsedObjects ==
    {EmptyObject, ValidObject} \cup SingleKeyObjects
    \cup {Merge(ValidObject, o) : o \in SingleKeyObjects}

\* the ways a JSON object reaches the stage inside a response text
Wrappings(o) ==
    LET js == Stringify(JObj(o)) IN
    {js,                                    \* the object alone
     <<FenceJson>> \o js \o <<Fence>>,       \* in a code fence
     <<Word>> \o js \o <<Word>>,             \* with prose around it
     <<LK>> \o js \o <<RK>>,                 \* as the element of a bare array
     js \o js,                              \* twice (malformed)
     SubSeq(js, 1, Len(js) - 1)}            \* truncated (malformed)

EvalTexts ==
    RawTexts \cup {<<TStr("ab")>>}
    \cup UNION {Wrappings(o) : o \in {EmptyObject, ValidObject} \cup SingleKeyObjects}
    \cup {Stringify(JObj(o)) : o \in ParsedObjects}

\* search-stage texts and grounding metadata
BenchAlphabet ==
    {Marker, EndItem, Prose,
     KeyLine("University", <<"*", "*", "MIT", "*", "*">>),
     KeyLine("University", <<>>),
     KeyLine("Comparison", <<"covers ", "*", "ethics", "*">>)}

TutorAlphabet ==
    {Marker, EndItem, Prose,
     KeyLine("Name", <<"*", "Dr. A", "*">>),
     KeyLine("Affiliation", <<"Birzeit">>),
     KeyLine("Specialization", <<"*", "AI", "*">>)}

ChunkLists ==
    {NoChunks, Chunks(<<>>), Chunks(<<PlainChunk, WebChunk("u1"), WebChunk("u2")>>),
     Chunks(<<NullChunk, WebChunk("u1")>>)}

\* texts that yield no record, one record and two records
ChunkedTexts ==
    {<<Prose>>,
     <<Marker, KeyLine("University", <<"MIT">>), KeyLine("Comparison", <<"same">>),
       EndItem>>,
     <<Marker, KeyLine("University", <<"MIT">>), KeyLine("Comparison", <<"same">>),
       EndItem, Marker, KeyLine("University", <<"ABET">>),
       KeyLine("Comparison", <<"misses ethics">>), EndItem>>}

BenchResponses ==
    {[text |-> tx, chunks |-> NoChunks] :
        tx \in {<<>>} \cup SeqsUpTo(BenchAlphabet, MaxSearchLen)}
    \cup {[text |-> tx, chunks |-> ch] : tx \in ChunkedTexts, ch \in ChunkLists}

TutorResponses ==
    {[text |-> tx] : tx \in {<<>>} \cup SeqsUpTo(TutorAlphabet, MaxSearchLen)}

\* translation: results to translate and the payloads the model may return
TranslatableKeys == {"courseTitle", "recommendations", "overallScore"}

TranslatedValues(k) ==
    CASE k = "courseTitle" -> {JStr("translated title"), JNull}
      [] k = "recommendations" -> {JArr(<<JStr("translated")>>), JNull, JStr("x")}
      [] k = "overallScore" -> {JNum(85)}

PayloadObjects ==
    {[extraKey |-> JStr("translated")]}
    \cup UNION {{f \in [S -> UNION {TranslatedValues(k) : k \in S}] :
                    \A k \in S : f[k] \in TranslatedValues(k)} :
                S \in SUBSET TranslatableKeys}

TransTexts ==
    {<<>>, <<Word>>, <<LK, TStr("X"), RK>>, <<TStr("ab")>>}
    \cup {Stringify(JObj(o)) : o \in PayloadObjects}

\* the list of records of a search stage, as a property value of the report
JRecords(rs) == [t |-> "records", list |-> rs]

\* setResults({ ...analysis, benchmarks, tutors })
assembleResults(analysis, benchmarks, tutors) ==
    Merge(analysis, [benchmarks |-> JRecords(benchmarks), tutors |-> JRecords(tutors)])

FiveKeyResult ==
    [courseTitle |-> JStr("Intro to Algorithms"),
     overallScore |-> JNum(85),
     recommendations |-> JArr(<<JStr("add rubric")>>),
     benchmarks |-> JRecords(<<SearchUnavailableRecord>>),
     tutors |-> JRecords(<<>>)]

TransInputs ==
    {FiveKeyResult,
     assembleResults(evaluateResult(Stringify(JObj(ValidObject))),
                     <<NoDataRecord>>, <<>>)}

UpstreamErrors == {Err("upstream failure"), Err("")}

Responses(c) ==
    CASE c = "eval" -> {[text |-> tx] : tx \in EvalTexts}
      [] c = "bench" -> BenchResponses
      [] c = "tutor" -> TutorResponses
      [] c = "trans" -> {[text |-> tx] : tx \in TransTexts}

(***************************************************************************)
(* SpecStage: one stage call at a time, over every answer of the upstream   *)
(***************************************************************************)
AppInit ==
    /\ file = "none"
    /\ language = "en"
    /\ status = "idle"
    /\ errorMessage = JNull
    /\ results = JNull
    /\ isTranslating = FALSE
    /\ hp = [pc |-> "idle"]
    /\ hlc = [pc |-> "idle"]

InitStage ==
    /\ AppInit
    /\ jobs = <<>>
    /\ \E c \in Calls :
         \E a \in (IF c = "trans" THEN TransInputs ELSE {EmptyObject}) :
            /\ req = [x \in Calls |-> IF x = c THEN Pending ELSE NoPromise]
            /\ timer = [x \in Calls |->
                           IF x = c THEN setTimeout(TimeoutMs(c), TimeoutMsg(c))
                           ELSE NoTimer]
            /\ race = [x \in Calls |-> IF x = c THEN Pending ELSE NoPromise]
            /\ wt = [x \in Calls |-> IF x = c THEN Pending ELSE NoPromise]
            /\ ret = [x \in Calls |-> IF x = c THEN Pending ELSE NoPromise]
            /\ arg = [x \in Calls |-> IF x = c THEN a ELSE EmptyObject]
            /\ settles = [x \in Calls |-> 0]

\* the caller translates again the result of the previous translation
TranslateAgain ==
    /\ jobs = <<>>
    /\ ret["trans"].st = "fulfilled"
    /\ StartCalls({"trans"}, [NoArgs EXCEPT !["trans"] = ret["trans"].v])
    /\ UNCHANGED <<jobs, appVars>>

NextStage ==
    \/ \E c \in Calls : UpstreamResolve(c, Responses(c))
    \/ \E c \in Calls : UpstreamReject(c, UpstreamErrors)
    \/ \E c \in Calls : TimerFire(c)
    \/ RunRace
    \/ RunFinally
    \/ RunStage
    \/ TranslateAgain

SpecStage == InitStage /\ [][NextStage]_vars

(***************************************************************************)
(* Spec: the App component driving the pipeline                             *)
(***************************************************************************)
FileKinds == {"pdf", "other"}
SupportedKinds == {"pdf"}

\* error.message || "An unexpected error occurred"
messageOf(e) ==
    IF e.message # "" THEN JStr(e.message) ELSE JStr("An unexpected error occurred")

\* the stages handleProcess starts together under Promise.all
gatheringCalls == {"bench", "tutor"}

\* analysis.courseTitle || 'Unknown Course'
titleOf(analysis) ==
    IF Truthy(analysis.courseTitle) THEN analysis.courseTitle
    ELSE JStr("Unknown Course")

\* mutant: the report is assembled as soon as one of the two has settled
promiseAll_First(b, t) ==
    IF b.st = "fulfilled" \/ t.st = "fulfilled"
    THEN Fulfilled(<<IF b.st = "fulfilled" THEN b.v ELSE <<>>,
                     IF t.st = "fulfilled" THEN t.v ELSE <<>> >>)
    ELSE Pending

\* Promise.all([benchmarks, tutors]): rejected as soon as one input is,
\* fulfilled with both values once both are
promiseAll(b, t) ==
    IF b.st = "rejected" THEN Rejected(b.e)
    ELSE IF t.st = "rejected" THEN Rejected(t.e)
    ELSE IF b.st = "fulfilled" /\ t.st = "fulfilled" THEN Fulfilled(<<b.v, t.v>>)
    ELSE Pending

Init ==
    /\ AppInit
    /\ jobs = <<>>
    /\ req = [c \in Calls |-> NoPromise]
    /\ timer = [c \in Calls |-> NoTimer]
    /\ race = [c \in Calls |-> NoPromise]
    /\ wt = [c \in Calls |-> NoPromise]
    /\ ret = [c \in Calls |-> NoPromise]
    /\ arg = NoArgs
    /\ settles = [c \in Calls |-> 0]

\* FileUpload's onFileSelect (rendered while status is idle or error)
SelectFile(f) ==
    /\ jobs = <<>>
    /\ status \in {"idle", "error"}
    /\ file' = f
    /\ UNCHANGED <<callVars, jobs, language, status, errorMessage, results,
                   isTranslating, hp, hlc>>

\* the Analyze button: handleProcess up to  await fileToGenerativePart(file)
HandleProcess ==
    /\ jobs = <<>>
    /\ status \in {"idle", "error"}
    /\ file # "none"
    /\ hp.pc = "idle"
    /\ errorMessage' = JNull
    /\ status' = "uploading"
    /\ hp' = [pc |-> "awaitFile"]
    /\ UNCHANGED <<callVars, jobs, file, language, results, isTranslating, hlc>>

\* fileToGenerativePart resolves: setStatus('analyzing') and the extraction
\* stage is called
FileRead ==
    /\ jobs = <<>>
    /\ hp.pc = "awaitFile"
    /\ file \in SupportedKinds
    /\ status' = "analyzing"
    /\ hp' = [pc |-> "awaitEval"]
    /\ StartCalls({"eval"}, NoArgs)
    /\ UNCHANGED <<jobs, file, language, errorMessage, results, isTranslating, hlc>>

\* fileToGenerativePart rejects (unsupported type, missing converter, read
\* error): the catch block of handleProcess
FileFail(e) ==
    /\ jobs = <<>>
    /\ hp.pc = "awaitFile"
    /\ errorMessage' = messageOf(e)
    /\ status' = "error"
    /\ hp' = [pc |-> "idle"]
    /\ UNCHANGED <<callVars, jobs, file, language, results, isTranslating, hlc>>

\* handleProcess resumes after  await evaluateSyllabusContent(...)
AfterEvaluate ==
    /\ jobs # <<>> /\ Head(jobs) = CallerJob("eval")
    /\ jobs' = Tail(jobs)
    /\ IF ret["eval"].st = "fulfilled"
       THEN /\ status' = "gathering_data"
            /\ hp' = [pc |-> "awaitAll", analysis |-> ret["eval"].v]
            /\ StartCalls(gatheringCalls,
                          [c \in Calls |-> [courseTitle |-> titleOf(ret["eval"].v)]])
            /\ UNCHANGED errorMessage
       ELSE /\ errorMessage' = messageOf(ret["eval"].e)
            /\ status' = "error"
            /\ hp' = [pc |-> "idle"]
            /\ ReleaseCalls({"eval"})
    /\ UNCHANGED <<file, language, results, isTranslating, hlc>>

\* Promise.all reacts to one of the two stages settling; once it settles,
\* handleProcess resumes: setResults, setStatus('complete'), or the catch
AfterGathering ==
    /\ jobs # <<>> /\ Head(jobs).j = "caller" /\ Head(jobs).c \in {"bench", "tutor"}
    /\ jobs' = Tail(jobs)
    /\ LET all == promiseAll(ret["bench"], ret["tutor"]) IN
       IF hp.pc = "awaitAll" /\ all.st = "fulfilled"
       THEN /\ results' = assembleResults(hp.analysis, all.v[1], all.v[2])
            /\ status' = "complete"
            /\ hp' = [pc |-> "idle"]
            /\ ReleaseCalls({"eval", "bench", "tutor"})
            /\ UNCHANGED errorMessage
       ELSE IF hp.pc = "awaitAll" /\ all.st = "rejected"
       THEN /\ errorMessage' = messageOf(all.e)
            /\ status' = "error"
            /\ hp' = [pc |-> "idle"]
            /\ ReleaseCalls({"eval", "bench", "tutor"})
            /\ UNCHANGED results
       ELSE UNCHANGED <<results, status, hp, errorMessage, callVars>>
    /\ UNCHANGED <<file, language, isTranslating, hlc>>

\* the language button (disabled while isTranslating)
HandleLanguageChange ==
    /\ jobs = <<>>
    /\ ~isTranslating
    /\ language' = IF language = "en" THEN "ar" ELSE "en"
    /\ IF results # JNull /\ status = "complete"
       THEN /\ isTranslating' = TRUE
            /\ hlc' = [pc |-> "awaitTrans"]
            /\ StartCalls({"trans"}, [NoArgs EXCEPT !["trans"] = results])
       ELSE UNCHANGED <<isTranslating, hlc, callVars>>
    /\ UNCHANGED <<jobs, file, status, errorMessage, results, hp>>

\* handleLanguageChange resumes after  await translateAnalysisResult(...)
AfterTranslate ==
    /\ jobs # <<>> /\ Head(jobs) = CallerJob("trans")
    /\ jobs' = Tail(jobs)
    /\ results' = IF ret["trans"].st = "fulfilled" THEN ret["trans"].v ELSE results
    /\ isTranslating' = FALSE
    /\ hlc' = [pc |-> "idle"]
    /\ ReleaseCalls({"trans"})
    /\ UNCHANGED <<file, language, status, errorMessage, hp>>

\* mutant: the reset leaves the report in place
HandleReset_KeepResults ==
    /\ jobs = <<>>
    /\ status = "complete" /\ results # JNull /\ ~isTranslating
    /\ file' = "none"
    /\ errorMessage' = JNull
    /\ status' = "idle"
    /\ UNCHANGED <<callVars, jobs, language, isTranslating, hp, hlc, results>>

\* the "analyze another" link (rendered with the results)
HandleReset ==
    /\ jobs = <<>>
    /\ status = "complete" /\ results # JNull /\ ~isTranslating
    /\ file' = "none"
    /\ results' = JNull
    /\ errorMessage' = JNull
    /\ status' = "idle"
    /\ UNCHANGED <<callVars, jobs, language, isTranslating, hp, hlc>>

\* the answers the upstream gives in the App runs
AppAnswers(c) ==
    CASE c = "eval" ->
            {[text |-> <<>>], [text |-> <<Word>>],
             [text |-> Stringify(JObj(ValidObject))]}
      [] c = "bench" ->
            {[text |-> tx, chunks |-> Chunks(<<WebChunk("u1")>>)] : tx \in ChunkedTexts}
      [] c = "tutor" ->
            {[text |-> <<>>],
             [text |-> <<Marker, KeyLine("Name", <<"Dr. A">>), EndItem>>]}
      [] c = "trans" ->
            {[text |-> <<Word>>],
             [text |-> Stringify(JObj([courseTitle |-> JStr("translated title")]))]}

AppErrors == {Err("upstream failure")}

Next ==
    \/ \E f \in FileKinds : SelectFile(f)
    \/ HandleProcess
    \/ FileRead
    \/ \E e \in {Err("Unsupported file type"), Err("")} : FileFail(e)
    \/ \E c \in Calls : UpstreamResolve(c, AppAnswers(c))
    \/ \E c \in Calls : UpstreamReject(c, AppErrors)
    \/ \E c \in Calls : TimerFire(c)
    \/ RunRace
    \/ RunFinally
    \/ RunStage
    \/ AfterEvaluate
    \/ AfterGathering
    \/ HandleLanguageChange
    \/ AfterTranslate
    \/ HandleReset

Spec == Init /\ [][Next]_vars

(***************************************************************************)
(* Properties                                                               *)
(***************************************************************************)
\* the parsed object of the response that settled the stage c
ParsedOf(c) ==
    parseJSON(IF wt[c].v.text = <<>> THEN <<LB, RB>> ELSE wt[c].v.text)

EvalDone == ret["eval"].st = "fulfilled" /\ wt["eval"].st = "fulfilled"
TransDone == ret["trans"].st = "fulfilled" /\ wt["trans"].st = "fulfilled"

\* every key of the skeleton is present, every list field is a list and
\* gapAnalysis holds its three lists
StructurallyComplete(v) ==
    /\ DOMAIN defaultAnalysis \subseteq DOMAIN v
    /\ \A k \in ListKeys : IsArray(v[k])
    /\ v.gapAnalysis.t \in {"obj", "arr"}
    /\ \A k \in GapKeys : IsArray(GetProp(v.gapAnalysis, k))

C2_SearchStagesFailOpen ==
    /\ ret["bench"].st # "rejected"
    /\ ret["tutor"].st # "rejected"
    /\ ( /\ Settled(ret["bench"])
         /\ \/ timer["bench"].st = "fired"
            \/ req["bench"].st = "rejected"
            \/ wt["bench"].st = "fulfilled" /\ benchmarkTry(wt["bench"].v).threw )
       => /\ ret["bench"].st = "fulfilled"
          /\ Len(ret["bench"].v) = 1
          /\ DOMAIN ret["bench"].v[1] = {"university", "comparison"}
          /\ ret["bench"].v[1].university = <<"Search Unavailable">>
          /\ \E i \in DOMAIN ret["bench"].v[1].comparison :
                ret["bench"].v[1].comparison[i] = "timeout"
    /\ ( /\ Settled(ret["tutor"])
         /\ timer["tutor"].st = "fired" \/ req["tutor"].st = "rejected" )
       => ret["tutor"] = Fulfilled(<<>>)

\* the benchmark stage absorbed a timeout
C2_Witness ==
    /\ timer["bench"].st = "fired"
    /\ ret["bench"] = Fulfilled(<<SearchUnavailableRecord>>)

\* C3: when the upstream call of evaluateSyllabusContent or
\* translateAnalysisResult rejects, or the 60 s deadline comes first, the
\* stage's promise rejects with that error (the stage's timeout message on a
\* deadline); no fallback value is substituted.
C3_ExtractionAndTranslationFailClosed ==
    \A c \in {"eval", "trans"} :
        Settled(ret[c]) =>
            /\ timer[c].st = "fired" =>
                    ret[c] = Rejected(Err(IF c = "eval"
                                          THEN "Analysis timed out (60s)."
                                          ELSE "Translation timed out."))
            /\ (timer[c].st # "fired" /\ req[c].st = "rejected") =>
                    ret[c] = Rejected(req[c].e)

\* a translation ran into its deadline and rejected
C3_Witness ==
    /\ timer["trans"].st = "fired"
    /\ ret["trans"] = Rejected(Err("Translation timed out."))

\* C4: in every result of evaluateSyllabusContent the three gapAnalysis
\* lists are non-empty; an empty list or a non-list given by the model is
\* replaced by exactly one placeholder string.
C4_GapListsNonEmpty ==
    EvalDone =>
        \A k \in GapKeys :
            LET l == GetProp(ret["eval"].v.gapAnalysis, k)
                given == GetProp(GetProp(ParsedOf("eval"), "gapAnalysis"), k)
            IN  /\ IsArray(l) /\ Len(l.a) >= 1
                /\ (~IsArray(given) \/ given.a = <<>>) =>
                        l = defaultGapAnalysis.o[k]

\* C5: the object translateAnalysisResult returns has every top-level key of
\* its input; a key absent from the parsed payload keeps the input's value
\* and a key present in the payload carries the payload's value.
C5_TranslationMergeKeepsKeys ==
    TransDone =>
        LET data == arg["trans"]
            out == ret["trans"].v
            payload == SpreadProps(ParsedOf("trans"))
        IN  /\ DOMAIN data \subseteq DOMAIN out
            /\ \A k \in DOMAIN data :
                    out[k] = IF k \in DOMAIN payload THEN payload[k] ELSE data[k]

\* a payload with three of the five keys: all five are in the output, two
\* of them unchanged
C5_Witness ==
    /\ TransDone
    /\ arg["trans"] = FiveKeyResult
    /\ DOMAIN SpreadProps(ParsedOf("trans")) = TranslatableKeys
    /\ DOMAIN ret["trans"].v = DOMAIN FiveKeyResult
    /\ ret["trans"].v.courseTitle = JStr("translated title")
    /\ ret["trans"].v.tutors = FiveKeyResult.tutors
    /\ ret["trans"].v.benchmarks = FiveKeyResult.benchmarks

\* C6: after any number of successive translations no top-level key of the
\* result is removed or null: a key the payload omits or corrupts (null, or a
\* value of another type) still carries the value it had in the input.
C6_NoKeyRemovedOrNulled ==
    TransDone =>
        LET data == arg["trans"]
            out == ret["trans"].v
            payload == SpreadProps(ParsedOf("trans"))
        IN  \A k \in DOMAIN data :
                /\ k \in DOMAIN out
                /\ (k \notin DOMAIN payload \/ payload[k].t # data[k].t) =>
                        out[k] = data[k]
                /\ data[k].t # "null" => out[k].t \notin {"null", "undefined"}

\* C7: withTimeout settles exactly once: with the operation's outcome when
\* the operation settles before the deadline, else with a failure carrying
\* the caller's message; once it has settled its timer is not pending any
\* more (cleared, or already fired), so no callback of it fires afterwards.
C7_WithTimeoutSettlesOnce ==
    \A c \in Calls :
        /\ settles[c] <= 1
        /\ (settles[c] = 1) = Settled(wt[c])
        /\ Settled(wt[c]) =>
                /\ timer[c].st \in {"cleared", "fired"}
                /\ timer[c].st = "cleared" => Settled(req[c]) /\ wt[c] = req[c]
                /\ timer[c].st = "fired" => wt[c] = Rejected(Err(TimeoutMsg(c)))

\* the deadline came first and the abandoned request answered afterwards
C7_Witness ==
    \E c \in Calls :
        /\ timer[c].st = "fired"
        /\ req[c].st = "fulfilled"
        /\ wt[c].st = "rejected"
        /\ settles[c] = 1
        /\ jobs = <<>>

\* what a search stage yields, from its own request and timer alone
OwnValue(c) ==
    IF timer[c].st = "fired" \/ req[c].st = "rejected"
    THEN (IF c = "bench" THEN <<SearchUnavailableRecord>> ELSE <<>>)
    ELSE LET r == IF c = "bench" THEN benchmarkTry(req[c].v) ELSE tutorTry(req[c].v)
         IN  IF r.threw
             THEN (IF c = "bench" THEN <<SearchUnavailableRecord>> ELSE <<>>)
             ELSE r.v

C8_WhileGathering ==
    hp.pc = "awaitAll" =>
        \A c \in {"bench", "tutor"} :
            /\ req[c].st # "none" /\ timer[c].st # "none" /\ ret[c].st # "none"
            /\ Settled(ret[c]) => ret[c] = Fulfilled(OwnValue(c))

C8_Assembly ==
    (status # "complete" /\ status' = "complete") =>
        /\ Settled(ret["bench"]) /\ Settled(ret["tutor"])
        /\ results' = assembleResults(hp.analysis, OwnValue("bench"), OwnValue("tutor"))

\* C8: in an analysis run both search stages are started before either is
\* awaited; the report is assembled (results set, status complete) only
\* after both have settled, in every interleaving; and the value of each
\* stage is decided by its own request and deadline alone.
C8_ParallelSearchJoin == []C8_WhileGathering /\ [][C8_Assembly]_vars

\* a report assembled from a benchmark stage that timed out and a tutor
\* stage that found someone
C8_Witness ==
    /\ status = "complete"
    /\ results # JNull
    /\ results.benchmarks = JRecords(<<SearchUnavailableRecord>>)
    /\ results.tutors.list # <<>>
    /\ req["bench"].st = "pending"

\* C9: a list field present in the parsed object with a non-list value
\* becomes the empty list, except that revisedILOs and the gapAnalysis lists
\* become their non-empty placeholder list.
C9_NonListFieldsCoerced ==
    (EvalDone /\ ParsedOf("eval").t = "obj") =>
        LET parsed == ParsedOf("eval").o
            out == ret["eval"].v
        IN  /\ \A k \in ListKeys :
                    (k \in DOMAIN parsed /\ ~IsArray(parsed[k])) =>
                        out[k] = IF k = "revisedILOs" THEN defaultAnalysis.revisedILOs
                                 ELSE JArr(<<>>)
            /\ ("gapAnalysis" \in DOMAIN parsed /\ parsed.gapAnalysis.t = "obj") =>
                    \A k \in GapKeys :
                        ( /\ k \in DOMAIN parsed.gapAnalysis.o
                          /\ ~IsArray(parsed.gapAnalysis.o[k]) ) =>
                            GetProp(out.gapAnalysis, k) = defaultGapAnalysis.o[k]

\* C10: for a response whose text is empty, is malformed JSON or is a bare
\* JSON array, evaluateSyllabusContent returns exactly the default skeleton.
C10_DefaultSkeletonOnBadResponse ==
    EvalDone =>
        LET text == wt["eval"].v.text
            whole == JSONParse(text)
        IN  (text = <<>> \/ ~whole.ok \/ whole.val.t = "arr") =>
                ret["eval"].v = defaultAnalysis

\* the list a search stage returned from a response it received and parsed
BenchParsed ==
    /\ ret["bench"].st = "fulfilled"
    /\ wt["bench"].st = "fulfilled"
    /\ ~benchmarkTry(wt["bench"].v).threw
TutorParsed == ret["tutor"].st = "fulfilled" /\ wt["tutor"].st = "fulfilled"

\* the records of a benchmark list that were parsed from the text
ParsedBenchmarks(v) == IF v = <<NoDataRecord>> THEN <<>> ELSE v

\* the fragments of a text in which the primary key is present
WithKey(text, key) == SelectSeq(split(text), LAMBDA it : matchLine(it, key).found)

\* C11: in both search stages a fragment becomes a record exactly when its
\* primary key (University, Name) is present: a fragment lacking any other
\* key is still accepted, its missing fields set to their placeholders, and
\* a fragment without the primary key is dropped without changing the
\* records of the other fragments.
C11_PrimaryKeyDecides ==
    /\ BenchParsed =>
            LET kept == WithKey(wt["bench"].v.text, "University")
                rs == ParsedBenchmarks(ret["bench"].v)
            IN  /\ Len(rs) = Len(kept)
                /\ \A i \in 1..Len(rs) :
                        rs[i].university =
                            stripStars(trim(matchLine(kept[i], "University").cap))
    /\ TutorParsed =>
            LET kept == WithKey(wt["tutor"].v.text, "Name")
                rs == ret["tutor"].v
            IN  /\ Len(rs) = Len(kept)
                /\ \A i \in 1..Len(rs) :
                        /\ rs[i].name = stripStars(trim(matchLine(kept[i], "Name").cap))
                        /\ ~matchLine(kept[i], "Affiliation").found =>
                                rs[i].affiliation = <<"Unknown">>
                        /\ ~matchLine(kept[i], "Email").found =>
                                rs[i].email = <<"Not listed">>
                        /\ ~matchLast(kept[i], "Specialization").found =>
                                rs[i].specialization = <<"Related Field">>

\* C12: no field of a record returned by performBenchmarking or
\* findLocalTutors contains a '*' character.
C12_NoStarInAnyField ==
    /\ BenchParsed =>
            \A i \in 1..Len(ret["bench"].v) :
                \A f \in {"university", "comparison"} :
                    \A j \in 1..Len(ret["bench"].v[i][f]) :
                        ret["bench"].v[i][f][j] # "*"
    /\ TutorParsed =>
            \A i \in 1..Len(ret["tutor"].v) :
                \A f \in {"name", "affiliation", "email", "specialization"} :
                    \A j \in 1..Len(ret["tutor"].v[i][f]) :
                        ret["tutor"].v[i][f][j] # "*"

\* C13: in every result of evaluateSyllabusContent courseTitle is a string
\* and overallScore a number; a missing or malformed one is replaced by its
\* default ("Untitled Course", 0).
C13_ScalarFieldsTypeSafe ==
    EvalDone =>
        LET parsed == SpreadProps(ParsedOf("eval"))
            out == ret["eval"].v
        IN  /\ out.courseTitle.t = "str"
            /\ out.overallScore.t = "num"
            /\ ("courseTitle" \notin DOMAIN parsed \/ parsed.courseTitle.t # "str") =>
                    out.courseTitle = defaultAnalysis.courseTitle
            /\ ("overallScore" \notin DOMAIN parsed \/ parsed.overallScore.t # "num") =>
                    out.overallScore = defaultAnalysis.overallScore

\* the recovery order as documented: whole text, first object, first array,
\* fences stripped, else the empty object
RecoveryOrder(text) ==
    LET whole == JSONParse(text)
        objectMatch == GreedyMatch(text, "{", "}")
        object == IF objectMatch.found THEN JSONParse(objectMatch.text) ELSE ParseFail
        arrayMatch == GreedyMatch(text, "[", "]")
        array == IF arrayMatch.found THEN JSONParse(arrayMatch.text) ELSE ParseFail
        stripped == JSONParse(StripFences(text))
    IN  IF whole.ok THEN whole.val
        ELSE IF object.ok THEN object.val
        ELSE IF array.ok THEN array.val
        ELSE IF stripped.ok THEN stripped.val
        ELSE JObj(EmptyObject)

\* C14: parseJSON applies its recovery steps in the stated order, each later
\* step tried whenever the earlier ones yield no value: whole text, first
\* {...} object, first [...] array, fences stripped; the empty object only
\* when all of them fail.
C14_RecoveryOrder ==
    \A c \in {"eval", "trans"} :
        (Settled(ret[c]) /\ wt[c].st = "fulfilled") =>
            parseJSON(wt[c].v.text) = RecoveryOrder(wt[c].v.text)

\* the web locators of the citations of a response, in order
WebLocators(response) ==
    IF response.chunks.has
    THEN SelectSeq(response.chunks.list, LAMBDA ch : ch.c = "web")
    ELSE <<>>

\* a null citation stands before the first one with a web locator (or there
\* is none with a locator): looking for the locator throws
NullCitationFirst(response) ==
    /\ response.chunks.has
    /\ \E i \in 1..Len(response.chunks.list) :
            /\ response.chunks.list[i].c = "null"
            /\ \A j \in 1..(i - 1) : response.chunks.list[j].c # "web"

IsSentinel(r) == r.university \in {<<"No Data">>, <<"Search Unavailable">>}

\* the url rule of a returned list v, the url being due when attach holds
UrlRule(v, attach, locators) ==
    /\ \A i \in 2..Len(v) : "url" \notin DOMAIN v[i]
    /\ ("url" \in DOMAIN v[1]) = attach
    /\ attach => v[1].url = locators[1].uri
    /\ \A i \in 1..Len(v) : IsSentinel(v[i]) => "url" \notin DOMAIN v[i]

C16_NoRetryStep ==
    \A c \in Calls :
        \* a request is issued only by a new call of the stage, made after a
        \* result was delivered; never after a timeout or a failure
        /\ (req'[c].st = "pending" /\ req[c].st # "pending") =>
                /\ ret[c].st = "fulfilled" /\ timer[c].st = "cleared"
                /\ ret'[c].st = "pending"
        \* a pending request ends only by its own answer: it is neither
        \* cancelled nor replaced
        /\ (req[c].st = "pending" /\ req'[c] # req[c]) => Settled(req'[c])
        \* a delivered outcome is not delivered again, whatever answers later
        /\ (Settled(ret[c]) /\ ret'[c] # ret[c]) =>
                /\ ret[c].st = "fulfilled" /\ timer[c].st = "cleared"
                /\ ret'[c].st = "pending"

\* C16: each stage issues one upstream request per call and never re-issues
\* it: after a timeout or failure no retry happens, the abandoned request
\* is not cancelled, and the stage delivers its outcome exactly once even
\* if the abandoned request completes later.
C16_OneRequestNoRetry == [][C16_NoRetryStep]_vars

\* the benchmark stage delivered its fallback on the deadline and the
\* abandoned request answered afterwards
C16_Witness ==
    /\ timer["bench"].st = "fired"
    /\ ret["bench"] = Fulfilled(<<SearchUnavailableRecord>>)
    /\ req["bench"].st = "fulfilled"
    /\ race["bench"].st = "rejected"
    /\ jobs = <<>>

\* the number of start markers in a text
Markers(text) == Len(SelectSeq(text, LAMBDA tk : tk.k = "marker"))

\* C17: in both search stages the text before the first start marker never
\* produces a record: the number of records is at most the number of start
\* markers in the text.
C17_PreambleYieldsNoRecord ==
    /\ BenchParsed =>
            Len(ParsedBenchmarks(ret["bench"].v)) <= Markers(wt["bench"].v.text)
    /\ TutorParsed =>
            Len(ret["tutor"].v) <= Markers(wt["tutor"].v.text)

C18_StateConsistent ==
    /\ (results # JNull) = (status = "complete")
    /\ status = "error" => errorMessage # JNull

StatusMoves ==
    {<<"idle", "uploading">>, <<"error", "uploading">>,
     <<"uploading", "analyzing">>, <<"analyzing", "gathering_data">>,
     <<"gathering_data", "complete">>,
     <<"uploading", "error">>, <<"analyzing", "error">>,
     <<"gathering_data", "error">>,
     <<"complete", "idle">>}

C18_StatusStep ==
    status' # status =>
        /\ <<status, status'>> \in StatusMoves
        \* back to idle only by handleReset, which clears the run
        /\ status' = "idle" =>
                /\ ~isTranslating
                /\ file' = "none" /\ results' = JNull /\ errorMessage' = JNull

\* C18: in every reachable state of the App results is non-null exactly when
\* status is 'complete' and status 'error' implies a non-null errorMessage;
\* status only moves idle/error -> uploading -> analyzing -> gathering_data
\* -> complete or error, and returns to idle only through handleReset.
C18_AppStatusAndResults == []C18_StateConsistent /\ [][C18_StatusStep]_vars

\* a run completed and its report was translated while status stayed complete
C18_Witness ==
    /\ status = "complete"
    /\ ~isTranslating
    /\ language = "ar"
    /\ results # JNull
    /\ results.courseTitle = JStr("translated title")

====
